---- MODULE Spec2Model ----
(***************************************************************************)
(* Model of the text-to-speech pipeline of voice_app (synthesize.py):      *)
(*   get_ffmpeg_path, split_text_smart, _synthesize_chunk,                 *)
(*   _synthesize_chunk_gtts and synthesize_text_to_mp3.                    *)
(* A text is a sequence of one-character strings.                          *)
(***************************************************************************)
EXTENDS Integers, Sequences, FiniteSets, TLC

(***************************************************************************)
(* Bounds of the model.                                                    *)
(***************************************************************************)
\* longest text handed to split_text_smart in SplitSpec
MaxLen == 4
\* largest max_chars handed to split_text_smart in SplitSpec
MaxBound == 3
\* longest text of a request in Spec
MaxReqLen == 5
\* longest text of a call in MultiSpec
MaxMultiLen == 3
\* MAX_CHARS (synthesize.py:9 sets 2000), scaled down so that texts of
\* MaxReqLen characters are split
MAX_CHARS == 2

\* characters of the texts given to split_text_smart
Alphabet == {"a", " ", ".", "!", "?", "|"}
\* characters of the texts of a request
ReqAlphabet == {"a", " ", "."}
\* the characters str.strip() removes
Whitespace == {" "}

RECURSIVE SeqsUpTo(_, _)
SeqsUpTo(S, n) ==
    IF n = 0 THEN {<<>>}
    ELSE LET shorter == SeqsUpTo(S, n - 1)
         IN  shorter \cup {Append(s, c) : s \in {t \in shorter : Len(t) = n - 1}, c \in S}

(***************************************************************************)
(* String helpers of the Python runtime, as split_text_smart uses them.    *)
(***************************************************************************)
\* str.replace(old, new) for a one-character old
RECURSIVE StrReplace(_, _, _)
StrReplace(s, old, new) ==
    IF s = <<>> THEN <<>>
    ELSE (IF Head(s) = old THEN new ELSE <<Head(s)>>) \o StrReplace(Tail(s), old, new)

\* str.split(sep) for a one-character sep: n separators give n + 1 pieces
RECURSIVE StrSplit(_, _)
StrSplit(s, sep) ==
    IF \A i \in 1..Len(s) : s[i] # sep THEN <<s>>
    ELSE LET i == CHOOSE j \in 1..Len(s) : s[j] = sep /\ \A k \in 1..(j - 1) : s[k] # sep
         IN  <<SubSeq(s, 1, i - 1)>> \o StrSplit(SubSeq(s, i + 1, Len(s)), sep)

\* "".join(parts)
RECURSIVE StrJoin(_)
StrJoin(parts) ==
    IF parts = <<>> THEN <<>> ELSE Head(parts) \o StrJoin(Tail(parts))

\* not s.strip()
IsBlank(s) == \A i \in 1..Len(s) : s[i] \in Whitespace

(***************************************************************************)
(* split_text_smart (synthesize.py:47-76)                                  *)
(***************************************************************************)
\* line 57: the sentence list
Sentences(t) ==
    StrSplit(StrReplace(StrReplace(StrReplace(t, "!", <<"!", "|">>),
                                   "?", <<"?", "|">>),
                        ".", <<".", "|">>),
             "|")

\* line 60: the sentence still fits the running chunk
FitsNoCurrent(current, sentence, bound) == Len(sentence) <= bound
FitsStrictly(current, sentence, bound) == Len(current) + Len(sentence) < bound
Fits(current, sentence, bound) == Len(current) + Len(sentence) <= bound

\* lines 68-69: for i in range(0, len(sentence), max_chars): sentence[i:i+max_chars]
RECURSIVE HardCut(_, _)
HardCut(sentence, bound) ==
    IF sentence = <<>> THEN <<>>
    ELSE IF Len(sentence) <= bound THEN <<sentence>>
    ELSE <<SubSeq(sentence, 1, bound)>> \o HardCut(SubSeq(sentence, bound + 1, Len(sentence)), bound)

\* lines 63-65: flush the running chunk if it is not empty
Flush(acc, current) == IF current # <<>> THEN Append(acc, current) ELSE acc

\* lines 59-74: the loop over the sentences and the final flush
RECURSIVE ChunkLoop(_, _, _, _)
ChunkLoop(sentences, acc, current, bound) ==
    IF sentences = <<>> THEN Flush(acc, current)
    ELSE LET sentence == Head(sentences)
             rest == Tail(sentences)
         IN  IF Fits(current, sentence, bound)
             THEN ChunkLoop(rest, acc, current \o sentence, bound)
             ELSE IF Len(sentence) > bound
                  THEN ChunkLoop(rest, Flush(acc, current) \o HardCut(sentence, bound), <<>>, bound)
                  ELSE ChunkLoop(rest, Flush(acc, current), sentence, bound)

\* lines 51-52: a text within the bound is returned as it is
split_always_loops(t, bound) == ChunkLoop(Sentences(t), <<>>, <<>>, bound)
split_text_smart(t, bound) ==
    IF Len(t) <= bound THEN <<t>>
    ELSE ChunkLoop(Sentences(t), <<>>, <<>>, bound)

(***************************************************************************)
(* get_ffmpeg_path (synthesize.py:11-45)                                   *)
(* A host says what each source of the executable yields:                  *)
(*   resolver: the outcome of import imageio_ffmpeg; get_ffmpeg_exe()      *)
(*   which:    shutil.which("ffmpeg") finds an executable                  *)
(*   common:   os.path.exists of each of the three common_paths            *)
(***************************************************************************)
ResolverOutcomes == {"absent", "existing", "nonexisting", "none", "raises"}

Hosts == [resolver : ResolverOutcomes, which : BOOLEAN, common : [1..3 -> BOOLEAN]]

NoPath == "no path"
\* an exception: its type and the parts of its message
NoError == [type |-> "none", detail |-> <<>>]

\* lines 32-36
CommonPaths == <<"C:/ffmpeg/bin/ffmpeg.exe", "C:/Program Files/ffmpeg/bin/ffmpeg.exe", "~/ffmpeg/bin/ffmpeg.exe">>

\* lines 38-40: the first of the common paths that exists
FirstCommon(h) ==
    IF \E i \in 1..3 : h.common[i]
    THEN CommonPaths[CHOOSE i \in 1..3 : h.common[i] /\ \A j \in 1..(i - 1) : ~h.common[j]]
    ELSE NoPath

\* lines 26-45: what follows the bundled resolver
AfterResolver(h) ==
    IF h.which THEN [path |-> "which ffmpeg", error |-> NoError]
    ELSE IF FirstCommon(h) # NoPath THEN [path |-> FirstCommon(h), error |-> NoError]
    ELSE [path |-> NoPath, error |-> [type |-> "FileNotFoundError", detail |-> <<"FFmpeg not found">>]]

\* lines 18-24: only ImportError is caught around the bundled resolver
get_ffmpeg_path(h) ==
    CASE h.resolver = "existing" -> [path |-> "imageio ffmpeg", error |-> NoError]
      [] h.resolver = "raises"   -> [path |-> NoPath, error |-> [type |-> "ResolverError", detail |-> <<"get_ffmpeg_exe">>]]
      [] OTHER                   -> AfterResolver(h)

\* some source of the host yields an existing executable
Locatable(h) == h.resolver = "existing" \/ h.which \/ \E i \in 1..3 : h.common[i]

(***************************************************************************)
(* State of one request synthesize_text_to_mp3(text, voice, callback)      *)
(***************************************************************************)
VARIABLES
    pc,                \* position in the call
    text,              \* the text argument
    max_chars,         \* the bound given to split_text_smart
    chunks,            \* chunks = split_text_smart(text)
    progress_callback, \* a progress callback was given
    locatable,         \* the host of the call had a usable executable somewhere
    ffmpeg_exe,        \* line 148
    tmp_dir,           \* line 150
    idx,               \* loop index of line 159 (0-based, as enumerate gives it)
    use_fallback,      \* line 157
    chunk_files,       \* line 152: the chunk indexes whose file was appended
    fs,                \* state of chunk_<idx>.mp3 in tmp_dir: missing, empty or good
    attempt,           \* loop variable of _synthesize_chunk, line 93
    error_msg,         \* line 108, local of _synthesize_chunk
    progress,          \* values handed to progress_callback, as num / den
    manifest,          \* lines of mylist.txt, lines 189-194
    final_file,        \* state of final_output.mp3
    result,            \* the value returned to the caller
    error,             \* the exception that left synthesize_text_to_mp3
    cmd_runs,          \* history: subprocess.run calls of the current _synthesize_chunk call
    primary_on,        \* history: chunk indexes the primary command was run on
    fallback_on,       \* history: chunk indexes gTTS was called on
    primary_raised_at, \* history: chunk index at which _synthesize_chunk raised RuntimeError
    synth_failed_at,   \* history: chunk index at which _synthesize_chunk_gtts failed
    concat_runs,       \* history: runs of the ffmpeg concat command
    concat_exit,       \* history: how the ffmpeg concat command ended
    host,              \* the host a lone call of get_ffmpeg_path runs on (LocateSpec)
    reqs,              \* the locals of each of several calls side by side (MultiSpec)
    dirs               \* the directories tempfile.mkdtemp() has created (MultiSpec)

splitvars == <<text, max_chars, chunks>>
hostvars == <<locatable, ffmpeg_exe, tmp_dir>>
loopvars == <<idx, use_fallback, chunk_files, fs, attempt, error_msg, progress>>
concatvars == <<concat_runs, concat_exit>>
outvars == <<manifest, final_file, result, error, concatvars>>
\* what no step of a request changes
fixedvars == <<progress_callback, host, reqs, dirs>>
histvars == <<cmd_runs, primary_on, fallback_on, primary_raised_at, synth_failed_at>>
vars == <<pc, splitvars, fixedvars, hostvars, loopvars, outvars, histvars>>

NoIdx == 0 - 1
NoHost == "no host"
NoExit == [code |-> "not run", stderr |-> ""]
NoResult == "no result"

\* a call that runs alone
Single == reqs = <<>> /\ dirs = {}

\* everything a request holds before line 148 runs
Fresh ==
    /\ locatable = FALSE
    /\ ffmpeg_exe = NoPath
    /\ tmp_dir = "no dir"
    /\ idx = 0
    /\ use_fallback = FALSE
    /\ chunk_files = <<>>
    /\ fs = <<>>
    /\ attempt = 0
    /\ error_msg = "none"
    /\ progress = <<>>
    /\ manifest = <<>>
    /\ final_file = "missing"
    /\ result = NoResult
    /\ error = NoError
    /\ cmd_runs = 0
    /\ primary_on = {}
    /\ fallback_on = {}
    /\ primary_raised_at = NoIdx
    /\ synth_failed_at = NoIdx
    /\ concat_runs = 0
    /\ concat_exit = NoExit


(***************************************************************************)
(* Spec: one call synthesize_text_to_mp3(text, voice, progress_callback)   *)
(***************************************************************************)
Init ==
    /\ pc = "call"
    /\ text \in SeqsUpTo(ReqAlphabet, MaxReqLen)
    /\ max_chars = MAX_CHARS
    /\ chunks = <<>>
    /\ progress_callback \in BOOLEAN
    /\ host = NoHost
    /\ Single
    /\ Fresh

\* line 92
retries_off_by_one == 3 + 1
retries == 3

\* the chunk of the current iteration
chunk == chunks[idx + 1]

\* line 160: blank chunks are skipped
SkipOnlyEmpty(c) == c = <<>>
Skipped(c) == IsBlank(c)

\* line 171: the value use_fallback gets when _synthesize_chunk raised RuntimeError
KeepPrimary == use_fallback
SwitchValue == TRUE

\* an exception leaves synthesize_text_to_mp3
Raise(type, detail) ==
    /\ pc' = "failed"
    /\ error' = [type |-> type, detail |-> detail]

\* line 148, get_ffmpeg_path found the executable
Locate ==
    /\ pc = "call"
    /\ \E h \in Hosts :
         /\ get_ffmpeg_path(h).error = NoError
         /\ locatable' = Locatable(h)
         /\ ffmpeg_exe' = get_ffmpeg_path(h).path
    /\ pc' = "prepare"
    /\ UNCHANGED <<splitvars, fixedvars, tmp_dir, loopvars, outvars, histvars>>

\* line 148, get_ffmpeg_path (or the resolver it calls) raised
LocateFails ==
    /\ pc = "call"
    /\ \E h \in Hosts :
         /\ get_ffmpeg_path(h).error # NoError
         /\ locatable' = Locatable(h)
         /\ Raise(get_ffmpeg_path(h).error.type, get_ffmpeg_path(h).error.detail)
    /\ UNCHANGED <<splitvars, fixedvars, ffmpeg_exe, tmp_dir, loopvars,
                   manifest, final_file, result, concatvars, histvars>>

\* lines 150-157
Prepare ==
    /\ pc = "prepare"
    /\ tmp_dir' = "tmp dir"
    /\ chunks' = split_text_smart(text, max_chars)
    /\ chunk_files' = <<>>
    /\ fs' = [i \in 1..Len(chunks') |-> "missing"]
    /\ use_fallback' = FALSE
    /\ idx' = 0
    /\ pc' = "loop"
    /\ UNCHANGED <<text, max_chars, fixedvars, locatable, ffmpeg_exe,
                   attempt, error_msg, progress, outvars, histvars>>

\* lines 159-161: a blank chunk is skipped, with no progress report
SkipBlank ==
    /\ pc = "loop"
    /\ idx < Len(chunks)
    /\ Skipped(chunk)
    /\ idx' = idx + 1
    /\ UNCHANGED <<pc, splitvars, fixedvars, hostvars, use_fallback, chunk_files,
                   fs, attempt, error_msg, progress, outvars, histvars>>

\* lines 163-168 and 78-93: _synthesize_chunk is called on the chunk
EnterPrimary ==
    /\ pc = "loop"
    /\ idx < Len(chunks)
    /\ ~Skipped(chunk)
    /\ ~use_fallback
    /\ attempt' = 0
    /\ error_msg' = "none"
    /\ cmd_runs' = 0
    /\ pc' = "primary"
    /\ UNCHANGED <<splitvars, fixedvars, hostvars, idx, use_fallback, chunk_files,
                   fs, progress, outvars, primary_on, fallback_on, primary_raised_at,
                   synth_failed_at>>

\* lines 174-176: the request already switched to gTTS
EnterFallback ==
    /\ pc = "loop"
    /\ idx < Len(chunks)
    /\ ~Skipped(chunk)
    /\ use_fallback
    /\ pc' = "fallback"
    /\ UNCHANGED <<splitvars, fixedvars, hostvars, loopvars, outvars, histvars>>

\* lines 178-182: the chunk's synthesis returned and left its file in state f
ChunkDone(f) ==
    /\ fs' = [fs EXCEPT ![idx + 1] = f]
    /\ chunk_files' = IF f # "missing" THEN Append(chunk_files, idx) ELSE chunk_files
    /\ progress' = IF progress_callback
                   THEN Append(progress, [num |-> idx + 1, den |-> Len(chunks)])
                   ELSE progress
    /\ idx' = idx + 1
    /\ pc' = "loop"

\* one subprocess.run of the edge-tts command, lines 95-105
RunPrimary ==
    /\ pc = "primary"
    /\ cmd_runs' = cmd_runs + 1
    /\ primary_on' = primary_on \cup {idx}

\* lines 98-106: the command exits 0; nothing looks at the file it left
PrimarySucceeds ==
    /\ RunPrimary
    /\ \E f \in {"missing", "empty", "good"} : ChunkDone(f)
    /\ error_msg' = "none"
    /\ UNCHANGED <<splitvars, fixedvars, hostvars, use_fallback, attempt, outvars,
                   fallback_on, primary_raised_at, synth_failed_at>>

\* lines 107-114: a failed or timed-out attempt before the last one is retried
PrimaryRetry ==
    /\ RunPrimary
    /\ attempt # retries - 1
    /\ \E e \in {"stderr", "Timeout expired"} : error_msg' = e
    /\ attempt' = attempt + 1
    /\ UNCHANGED <<pc, splitvars, fixedvars, hostvars, idx, use_fallback, chunk_files,
                   fs, progress, outvars, fallback_on, primary_raised_at, synth_failed_at>>

\* lines 110-111 and 169-173: the last attempt failed, RuntimeError is raised and
\* the caller switches to gTTS for this chunk
PrimaryGivesUp ==
    /\ RunPrimary
    /\ attempt = retries - 1
    /\ \E e \in {"stderr", "Timeout expired"} : error_msg' = e
    /\ primary_raised_at' = idx
    /\ use_fallback' = SwitchValue
    /\ pc' = "fallback"
    /\ UNCHANGED <<splitvars, fixedvars, hostvars, idx, chunk_files, fs, attempt,
                   progress, outvars, fallback_on, synth_failed_at>>

\* line 98: the command cannot be started; OSError is not caught at line 107
\* nor at line 169
PrimaryCannotStart ==
    /\ RunPrimary
    /\ Raise("OSError", <<"edge-tts">>)
    /\ UNCHANGED <<splitvars, fixedvars, hostvars, loopvars, manifest, final_file,
                   result, concatvars, fallback_on, primary_raised_at, synth_failed_at>>

\* lines 136-139: gTTS saved the file
FallbackSucceeds ==
    /\ pc = "fallback"
    /\ fallback_on' = fallback_on \cup {idx}
    /\ \E f \in {"empty", "good"} : ChunkDone(f)
    /\ error_msg' = "none"
    /\ UNCHANGED <<splitvars, fixedvars, hostvars, use_fallback, attempt, outvars,
                   cmd_runs, primary_on, primary_raised_at, synth_failed_at>>

\* what synthesize_text_to_mp3 does with an exception of _synthesize_chunk_gtts:
\* nothing catches it
IgnoreFallbackError(type) ==
    /\ pc' = "loop"
    /\ idx' = idx + 1
    /\ UNCHANGED error
FallbackErrorPropagates(type) ==
    /\ Raise(type, <<"gTTS">>)
    /\ UNCHANGED idx

\* lines 136-141: gTTS cannot be imported (line 136) or fails (lines 140-141)
FallbackFails ==
    /\ pc = "fallback"
    /\ fallback_on' = fallback_on \cup {idx}
    /\ synth_failed_at' = idx
    /\ \E type \in {"RuntimeError", "ImportError"} : FallbackErrorPropagates(type)
    /\ UNCHANGED <<splitvars, fixedvars, hostvars, use_fallback, chunk_files, fs,
                   attempt, error_msg, progress, manifest, final_file, result, concatvars,
                   cmd_runs, primary_on, primary_raised_at>>

\* lines 184-185: no chunk file at the end of the loop
NoChunkFiles ==
    /\ pc = "loop"
    /\ idx = Len(chunks)
    /\ chunk_files = <<>>
    /\ Raise("ValueError", <<"No audio chunks generated">>)
    /\ UNCHANGED <<splitvars, fixedvars, hostvars, loopvars, manifest, final_file,
                   result, concatvars, histvars>>

\* lines 189-207: the manifest is written, one line per appended chunk file
WriteManifest ==
    /\ pc = "loop"
    /\ idx = Len(chunks)
    /\ chunk_files # <<>>
    /\ manifest' = chunk_files
    /\ pc' = "concat"
    /\ UNCHANGED <<splitvars, fixedvars, hostvars, loopvars, final_file, result,
                   error, concatvars, histvars>>

\* lines 209-214: ffmpeg exits 0 and the path of final_output.mp3 is returned
ConcatSucceeds ==
    /\ pc = "concat"
    /\ concat_runs' = concat_runs + 1
    /\ concat_exit' = [code |-> "zero", stderr |-> ""]
    /\ \E f \in {"missing", "empty", "good"} : final_file' = f
    /\ result' = "final_output.mp3"
    /\ pc' = "done"
    /\ UNCHANGED <<splitvars, fixedvars, hostvars, loopvars, manifest, error, histvars>>

\* what ffmpeg may write to its standard error
ToolStderr == {"Invalid data found when processing input", "No such file or directory"}

\* line 212: the message of the RuntimeError
ConcatMessageWithoutStderr(stderr) == <<"FFmpeg concatenation failed">>
ConcatMessage(stderr) == <<"FFmpeg concatenation failed: ", stderr>>

\* lines 211-212: ffmpeg exits non-zero
ConcatFails ==
    /\ pc = "concat"
    /\ concat_runs' = concat_runs + 1
    /\ \E e \in ToolStderr :
         /\ concat_exit' = [code |-> "nonzero", stderr |-> e]
         /\ Raise("RuntimeError", ConcatMessage(e))
    /\ UNCHANGED <<splitvars, fixedvars, hostvars, loopvars, manifest, final_file,
                   result, histvars>>

\* line 210: ffmpeg cannot be started; OSError is not caught at line 211
ConcatCannotStart ==
    /\ pc = "concat"
    /\ concat_runs' = concat_runs + 1
    /\ concat_exit' = [code |-> "not started", stderr |-> ""]
    /\ Raise("OSError", <<"ffmpeg">>)
    /\ UNCHANGED <<splitvars, fixedvars, hostvars, loopvars, manifest, final_file,
                   result, histvars>>

Next ==
    \/ Locate
    \/ LocateFails
    \/ Prepare
    \/ SkipBlank
    \/ EnterPrimary
    \/ EnterFallback
    \/ PrimarySucceeds
    \/ PrimaryRetry
    \/ PrimaryGivesUp
    \/ PrimaryCannotStart
    \/ FallbackSucceeds
    \/ FallbackFails
    \/ NoChunkFiles
    \/ WriteManifest
    \/ ConcatSucceeds
    \/ ConcatFails
    \/ ConcatCannotStart

Spec == Init /\ [][Next]_vars

(***************************************************************************)
(* ChunkSpec: one call _synthesize_chunk(text_chunk, output_path, voice),  *)
(* up to the point where it returns to, or raises into, its caller         *)
(***************************************************************************)
ChunkInit ==
    /\ pc = "chunk_call"
    /\ text \in SeqsUpTo(ReqAlphabet, MaxReqLen)
    /\ max_chars = MAX_CHARS
    /\ chunks = <<text>>
    /\ progress_callback \in BOOLEAN
    /\ host = NoHost
    /\ Single
    /\ locatable = TRUE
    /\ ffmpeg_exe = "which ffmpeg"
    /\ tmp_dir = "tmp dir"
    /\ idx = 0
    /\ use_fallback = FALSE
    /\ chunk_files = <<>>
    /\ fs = <<"missing">>
    /\ attempt = 0
    /\ error_msg = "none"
    /\ progress = <<>>
    /\ manifest = <<>>
    /\ final_file = "missing"
    /\ result = NoResult
    /\ error = NoError
    /\ cmd_runs = 0
    /\ primary_on = {}
    /\ fallback_on = {}
    /\ primary_raised_at = NoIdx
    /\ synth_failed_at = NoIdx
    /\ concat_runs = 0
    /\ concat_exit = NoExit

\* lines 80-81: a blank chunk returns at once
ChunkBlankReturn ==
    /\ pc = "chunk_call"
    /\ IsBlank(chunk)
    /\ pc' = "chunk_returned"
    /\ UNCHANGED <<splitvars, fixedvars, hostvars, loopvars, outvars, histvars>>

\* lines 80-93: any other chunk enters the retry loop
ChunkEnterLoop ==
    /\ pc = "chunk_call"
    /\ ~IsBlank(chunk)
    /\ attempt' = 0
    /\ error_msg' = "none"
    /\ cmd_runs' = 0
    /\ pc' = "primary"
    /\ UNCHANGED <<splitvars, fixedvars, hostvars, idx, use_fallback, chunk_files,
                   fs, progress, outvars, primary_on, fallback_on, primary_raised_at,
                   synth_failed_at>>

ChunkNext ==
    \/ ChunkBlankReturn
    \/ ChunkEnterLoop
    \/ PrimarySucceeds
    \/ PrimaryRetry
    \/ PrimaryGivesUp
    \/ PrimaryCannotStart

ChunkSpec == ChunkInit /\ [][ChunkNext]_vars

(***************************************************************************)
(* MultiSpec: calls of synthesize_text_to_mp3 side by side on one host.    *)
(* Each call has its own locals (reqs[r]); the calls share the directory   *)
(* namespace in which tempfile.mkdtemp() creates (dirs).                   *)
(***************************************************************************)
Requests == {"r1", "r2"}
DirNames == {"tmp_a", "tmp_b"}
MultiAlphabet == {"a", " "}

\* line 150: mkdtemp creates a directory that did not exist
mkdtemp_any(existing) == DirNames
mkdtemp(existing) == DirNames \ existing

\* lines 163, 188, 196: the paths of a request are built from its tmp_dir
ChunkPath(d, i) == [dir |-> d, name |-> "chunk_.mp3", n |-> i]
ListPath(d) == [dir |-> d, name |-> "mylist.txt", n |-> 0]
FinalPath(d) == [dir |-> d, name |-> "final_output.mp3", n |-> 0]

\* the locals of a call that has not started
NewReq ==
    [pc |-> "idle", chunks |-> <<>>, tmp_dir |-> "no dir", idx |-> 0,
     use_fallback |-> FALSE, attempt |-> 0, chunk_files |-> <<>>,
     written |-> {}, primary_on |-> {}, fallback_on |-> {}, raised_at |-> NoIdx]

\* line 178: chunk_file.exists() looks at the file system, whoever wrote there
Exists(path) == \E s \in Requests : path \in reqs[s].written

singlevars == <<pc, splitvars, progress_callback, host, hostvars, loopvars, outvars, histvars>>

MultiInit ==
    /\ pc = "multi"
    /\ text = <<>>
    /\ max_chars = MAX_CHARS
    /\ chunks = <<>>
    /\ progress_callback = FALSE
    /\ host = NoHost
    /\ reqs = [r \in Requests |-> NewReq]
    /\ dirs = {}
    /\ Fresh

\* line 148
MCall(r) ==
    /\ reqs[r].pc = "idle"
    /\ \E h \in Hosts :
          reqs' = [reqs EXCEPT ![r].pc =
                      IF get_ffmpeg_path(h).error = NoError THEN "located" ELSE "failed"]
    /\ UNCHANGED <<dirs, singlevars>>

\* lines 150-157
MPrepare(r) ==
    /\ reqs[r].pc = "located"
    /\ \E d \in mkdtemp(dirs), t \in SeqsUpTo(MultiAlphabet, MaxMultiLen) :
          /\ dirs' = dirs \cup {d}
          /\ reqs' = [reqs EXCEPT ![r].pc = "loop", ![r].tmp_dir = d,
                                  ![r].chunks = split_text_smart(t, MAX_CHARS)]
    /\ UNCHANGED singlevars

MInLoop(r) == reqs[r].pc = "loop" /\ reqs[r].idx < Len(reqs[r].chunks)
MChunk(r) == reqs[r].chunks[reqs[r].idx + 1]

\* lines 160-161
MSkipBlank(r) ==
    /\ MInLoop(r)
    /\ Skipped(MChunk(r))
    /\ reqs' = [reqs EXCEPT ![r].idx = @ + 1]
    /\ UNCHANGED <<dirs, singlevars>>

\* lines 165-168 and 93
MEnterPrimary(r) ==
    /\ MInLoop(r)
    /\ ~Skipped(MChunk(r))
    /\ ~reqs[r].use_fallback
    /\ reqs' = [reqs EXCEPT ![r].pc = "primary", ![r].attempt = 0]
    /\ UNCHANGED <<dirs, singlevars>>

\* lines 174-176
MEnterFallback(r) ==
    /\ MInLoop(r)
    /\ ~Skipped(MChunk(r))
    /\ reqs[r].use_fallback
    /\ reqs' = [reqs EXCEPT ![r].pc = "fallback"]
    /\ UNCHANGED <<dirs, singlevars>>

\* lines 178-179 after an engine wrote, or did not write, chunk_<idx>.mp3
MAppended(r, wrote) ==
    IF wrote \/ Exists(ChunkPath(reqs[r].tmp_dir, reqs[r].idx))
    THEN Append(reqs[r].chunk_files, reqs[r].idx)
    ELSE reqs[r].chunk_files

MWrites(r, wrote, path) == reqs[r].written \cup (IF wrote THEN {path} ELSE {})

\* lines 99-106 with exit status 0, then lines 178-182
MPrimarySucceeds(r) ==
    /\ reqs[r].pc = "primary"
    /\ \E wrote \in BOOLEAN :
          reqs' = [reqs EXCEPT
                      ![r].written = MWrites(r, wrote, ChunkPath(reqs[r].tmp_dir, reqs[r].idx)),
                      ![r].primary_on = @ \cup {reqs[r].idx},
                      ![r].chunk_files = MAppended(r, wrote),
                      ![r].idx = @ + 1,
                      ![r].pc = "loop"]
    /\ UNCHANGED <<dirs, singlevars>>

\* lines 107-114 before the last attempt
MPrimaryRetry(r) ==
    /\ reqs[r].pc = "primary"
    /\ reqs[r].attempt # retries - 1
    /\ reqs' = [reqs EXCEPT ![r].attempt = @ + 1,
                            ![r].primary_on = @ \cup {reqs[r].idx}]
    /\ UNCHANGED <<dirs, singlevars>>

\* lines 110-111, then lines 169-173 of the caller
MPrimaryGivesUp(r) ==
    /\ reqs[r].pc = "primary"
    /\ reqs[r].attempt = retries - 1
    /\ reqs' = [reqs EXCEPT ![r].primary_on = @ \cup {reqs[r].idx},
                            ![r].raised_at = reqs[r].idx,
                            ![r].use_fallback = SwitchValue,
                            ![r].pc = "fallback"]
    /\ UNCHANGED <<dirs, singlevars>>

\* line 99: the command cannot be launched
MPrimaryCannotStart(r) ==
    /\ reqs[r].pc = "primary"
    /\ reqs' = [reqs EXCEPT ![r].pc = "failed"]
    /\ UNCHANGED <<dirs, singlevars>>

\* lines 136-139, then lines 178-182
MFallbackSucceeds(r) ==
    /\ reqs[r].pc = "fallback"
    /\ reqs' = [reqs EXCEPT
                   ![r].written = MWrites(r, TRUE, ChunkPath(reqs[r].tmp_dir, reqs[r].idx)),
                   ![r].fallback_on = @ \cup {reqs[r].idx},
                   ![r].chunk_files = MAppended(r, TRUE),
                   ![r].idx = @ + 1,
                   ![r].pc = "loop"]
    /\ UNCHANGED <<dirs, singlevars>>

\* lines 136-141
MFallbackFails(r) ==
    /\ reqs[r].pc = "fallback"
    /\ reqs' = [reqs EXCEPT ![r].fallback_on = @ \cup {reqs[r].idx},
                            ![r].pc = "failed"]
    /\ UNCHANGED <<dirs, singlevars>>

\* lines 184-185
MNoChunkFiles(r) ==
    /\ reqs[r].pc = "loop"
    /\ reqs[r].idx = Len(reqs[r].chunks)
    /\ reqs[r].chunk_files = <<>>
    /\ reqs' = [reqs EXCEPT ![r].pc = "failed"]
    /\ UNCHANGED <<dirs, singlevars>>

\* lines 189-196
MWriteManifest(r) ==
    /\ reqs[r].pc = "loop"
    /\ reqs[r].idx = Len(reqs[r].chunks)
    /\ reqs[r].chunk_files # <<>>
    /\ reqs' = [reqs EXCEPT ![r].written = MWrites(r, TRUE, ListPath(reqs[r].tmp_dir)),
                            ![r].pc = "concat"]
    /\ UNCHANGED <<dirs, singlevars>>

\* lines 209-214
MConcatSucceeds(r) ==
    /\ reqs[r].pc = "concat"
    /\ \E wrote \in BOOLEAN :
          reqs' = [reqs EXCEPT
                      ![r].written = MWrites(r, wrote, FinalPath(reqs[r].tmp_dir)),
                      ![r].pc = "done"]
    /\ UNCHANGED <<dirs, singlevars>>

\* lines 209-212
MConcatFails(r) ==
    /\ reqs[r].pc = "concat"
    /\ reqs' = [reqs EXCEPT ![r].pc = "failed"]
    /\ UNCHANGED <<dirs, singlevars>>

MultiNext ==
    \E r \in Requests :
        \/ MCall(r)
        \/ MPrepare(r)
        \/ MSkipBlank(r)
        \/ MEnterPrimary(r)
        \/ MEnterFallback(r)
        \/ MPrimarySucceeds(r)
        \/ MPrimaryRetry(r)
        \/ MPrimaryGivesUp(r)
        \/ MPrimaryCannotStart(r)
        \/ MFallbackSucceeds(r)
        \/ MFallbackFails(r)
        \/ MNoChunkFiles(r)
        \/ MWriteManifest(r)
        \/ MConcatSucceeds(r)
        \/ MConcatFails(r)

MultiSpec == MultiInit /\ [][MultiNext]_vars

(***************************************************************************)
(* LocateSpec: one call get_ffmpeg_path() on a host                        *)
(***************************************************************************)
LocateInit ==
    /\ pc = "locate_call"
    /\ host \in Hosts
    /\ text = <<>>
    /\ max_chars = MAX_CHARS
    /\ chunks = <<>>
    /\ progress_callback = FALSE
    /\ Single
    /\ Fresh

\* lines 11-45
LocateCall ==
    /\ pc = "locate_call"
    /\ locatable' = Locatable(host)
    /\ ffmpeg_exe' = get_ffmpeg_path(host).path
    /\ error' = get_ffmpeg_path(host).error
    /\ pc' = IF get_ffmpeg_path(host).error = NoError THEN "locate_returned" ELSE "locate_raised"
    /\ UNCHANGED <<splitvars, fixedvars, tmp_dir, loopvars, manifest, final_file, result,
                   concatvars, histvars>>

LocateNext == LocateCall

LocateSpec == LocateInit /\ [][LocateNext]_vars

(***************************************************************************)
(* SplitSpec: one call split_text_smart(text, max_chars)                   *)
(***************************************************************************)
SplitInit ==
    /\ pc = "split_call"
    /\ text \in SeqsUpTo(Alphabet, MaxLen)
    /\ max_chars \in 1..MaxBound
    /\ chunks = <<>>
    /\ progress_callback = FALSE
    /\ host = NoHost
    /\ Single
    /\ Fresh

SplitCall ==
    /\ pc = "split_call"
    /\ chunks' = split_text_smart(text, max_chars)
    /\ pc' = "split_done"
    /\ UNCHANGED <<text, max_chars, fixedvars, hostvars, loopvars, outvars, histvars>>

SplitNext == SplitCall

SplitSpec == SplitInit /\ [][SplitNext]_vars

(***************************************************************************)
(* Claims about split_text_smart, checked under SplitSpec                  *)
(***************************************************************************)
\* C1: joining the chunks split_text_smart returns, in order and with no
\* separator, gives back exactly the text, for every text over an alphabet
\* that holds '|' and the terminators, and every max_chars >= 1
C1_JoinIsText == pc = "split_done" => StrJoin(chunks) = text

\* the sentences of the text that alone are longer than max_chars
LongSentences == {i \in 1..Len(Sentences(text)) : Len(Sentences(text)[i]) > max_chars}

\* C2: every chunk split_text_smart returns has length <= max_chars, and a
\* sentence longer than max_chars is returned as consecutive chunks, each of
\* length <= max_chars, that join to the sentence
C2_ChunkBound ==
    pc = "split_done" =>
        /\ \A i \in 1..Len(chunks) : Len(chunks[i]) <= max_chars
        /\ Len(text) > max_chars =>
             \A i \in LongSentences :
                \E a \in 1..Len(chunks) : \E b \in a..Len(chunks) :
                    StrJoin(SubSeq(chunks, a, b)) = Sentences(text)[i]

\* C2 witness: a sentence longer than max_chars was cut, after a shorter one
C2_Witness ==
    /\ pc = "split_done"
    /\ LongSentences # {}
    /\ \E i \in 1..Len(Sentences(text)) : i \notin LongSentences /\ Sentences(text)[i] # <<>>
    /\ Len(chunks) >= 3

(***************************************************************************)
(* Claims about synthesize_text_to_mp3, checked under Spec                 *)
(***************************************************************************)
\* the 0-based indexes of the chunks that are not blank, in increasing order
RECURSIVE NonBlankFrom(_)
NonBlankFrom(i) ==
    IF i >= Len(chunks) THEN <<>>
    ELSE (IF IsBlank(chunks[i + 1]) THEN <<>> ELSE <<i>>) \o NonBlankFrom(i + 1)

\* a step that runs the primary command
PrimaryRunStep == cmd_runs' = cmd_runs + 1

\* once _synthesize_chunk has raised at a chunk, the primary command ran on no
\* later chunk, and that chunk and every later non-blank chunk the loop has
\* completed went to gTTS
C3_StateAfterRaise ==
    primary_raised_at # NoIdx =>
        /\ \A i \in primary_on : i <= primary_raised_at
        /\ \A i \in primary_raised_at..(idx - 1) :
              ~IsBlank(chunks[i + 1]) => i \in fallback_on
        /\ \A i \in fallback_on : i >= primary_raised_at

\* C3: once the primary engine has failed for a chunk (_synthesize_chunk
\* raised, or its command could not be started), no later step of the request
\* runs the primary command; the failing chunk and every later non-blank chunk
\* that is synthesized goes to gTTS only
C3_StickToFallback ==
    /\ []C3_StateAfterRaise
    /\ [][(primary_raised_at # NoIdx \/ error.type = "OSError") =>
            (cmd_runs' = cmd_runs /\ primary_on' = primary_on)]_vars

\* C3 witness: the primary raised on one chunk and gTTS synthesized a later one
C3_Witness ==
    /\ primary_raised_at # NoIdx
    /\ \E i \in fallback_on : i > primary_raised_at /\ i < idx

\* the runs of one call of _synthesize_chunk: never more than 3, all of them
\* failed while the call is still trying, and exactly 3 once it has raised
C4_StateOfRetries ==
    /\ cmd_runs <= 3
    /\ pc = "primary" => (cmd_runs = attempt /\ cmd_runs < 3)
    /\ primary_raised_at # NoIdx => cmd_runs = 3

\* C4: one call of _synthesize_chunk runs the primary command at most 3
\* times: it stops at the first run that succeeds, runs it again after a
\* failed or timed-out run before the third, and raises after the third
\* failed run, without a fourth
C4_AtMostThreeRuns ==
    /\ []C4_StateOfRetries
    /\ [][PrimaryRunStep =>
            \/ pc' = "loop" /\ idx' = idx + 1
            \/ pc' = "failed" /\ error'.type = "OSError"
            \/ error_msg' # "none" /\ cmd_runs' < 3 /\ pc' = "primary"
            \/ error_msg' # "none" /\ cmd_runs' = 3 /\ primary_raised_at' = idx
                 /\ pc' = "fallback"]_vars

\* C4 witness: the third run failed and _synthesize_chunk raised
C4_Witness == primary_raised_at # NoIdx /\ cmd_runs = 3 /\ pc = "fallback"

\* C5: a chunk whose synthesis reported success but left a missing or empty
\* file counts as failed: every non-blank chunk the loop has completed has a
\* good file, and only good files are in chunk_files
C5_SmallFileIsFailure ==
    /\ \A i \in 1..idx : ~IsBlank(chunks[i]) => fs[i] = "good"
    /\ \A k \in 1..Len(chunk_files) : fs[chunk_files[k] + 1] = "good"

\* C6: in a call that returns a result and was given a callback, the values
\* reported are strictly increasing fractions of the number of chunks, lie in
\* (0, 1], and the last one is 1.0
C6_ProgressReachesOne ==
    (pc = "done" /\ progress_callback) =>
        /\ progress # <<>>
        /\ \A k \in 1..Len(progress) :
              /\ progress[k].den = Len(chunks)
              /\ 0 < progress[k].num /\ progress[k].num <= progress[k].den
        /\ \A k \in 1..(Len(progress) - 1) : progress[k].num < progress[k + 1].num
        /\ progress[Len(progress)].num = progress[Len(progress)].den

\* no temp directory, chunking, synthesis or concatenation has happened
NothingDone ==
    /\ tmp_dir = "no dir"
    /\ chunks = <<>>
    /\ cmd_runs = 0 /\ primary_on = {} /\ fallback_on = {}
    /\ concat_runs = 0

\* C7: when the executable cannot be located, the call fails with the
\* FileNotFoundError of get_ffmpeg_path before anything else is done
C7_ConfigErrorFirst ==
    (pc # "call" /\ ~locatable) =>
        /\ pc = "failed"
        /\ error.type = "FileNotFoundError"
        /\ NothingDone

\* no engine and no concatenation was called, and nothing was returned
NoExternalCall ==
    /\ cmd_runs = 0 /\ primary_on = {} /\ fallback_on = {}
    /\ concat_runs = 0
    /\ result = NoResult
    /\ pc \notin {"primary", "fallback", "concat", "done"}

\* C8 as stated: every whitespace-only text fails with the input error
C8_BlankIsInputError ==
    IsBlank(text) =>
        /\ NoExternalCall
        /\ pc = "failed" => error.type = "ValueError"

\* C8 as amended: a whitespace-only text makes no external call and returns
\* nothing; the call fails with ValueError when get_ffmpeg_path returned a
\* path, and with the error of get_ffmpeg_path when it raised
C8_BlankFailsWithoutCalls ==
    IsBlank(text) =>
        /\ NoExternalCall
        /\ (pc = "failed" /\ ffmpeg_exe # NoPath) => error.type = "ValueError"
        /\ (pc = "failed" /\ ffmpeg_exe = NoPath) =>
              error.type \in {"FileNotFoundError", "ResolverError"}
        /\ (pc = "loop" /\ idx = Len(chunks)) => chunk_files = <<>>

\* C8 witness: a whitespace-only text longer than the bound failed with ValueError
C8_Witness ==
    /\ pc = "failed" /\ error.type = "ValueError"
    /\ IsBlank(text) /\ Len(text) > 2 * max_chars

\* C9: when gTTS fails for a chunk or the concatenation fails, the request is
\* failed: no later chunk went to an engine, no concatenation ran after a
\* synthesis failure, no progress value was reported for the failed chunk or
\* a later one, and nothing is returned
C9_FailureIsTerminal ==
    /\ synth_failed_at # NoIdx =>
          /\ pc = "failed"
          /\ \A i \in primary_on \cup fallback_on : i <= synth_failed_at
          /\ \A k \in 1..Len(progress) : progress[k].num <= synth_failed_at
          /\ synth_failed_at \notin {chunk_files[k] : k \in 1..Len(chunk_files)}
          /\ manifest = <<>> /\ concat_runs = 0
    /\ (concat_runs > 0 /\ pc # "done") => (pc = "failed" /\ concat_runs = 1)
    /\ pc = "failed" => (result = NoResult /\ error # NoError)
    /\ pc = "done" => (synth_failed_at = NoIdx /\ error = NoError)

\* C9 witness: gTTS failed on a chunk that non-blank chunks follow
C9_Witness ==
    /\ synth_failed_at # NoIdx
    /\ \E i \in (synth_failed_at + 1)..(Len(chunks) - 1) : ~IsBlank(chunks[i + 1])

\* C10: in a request that reaches concatenation the manifest lists one
\* segment per non-blank chunk, in increasing chunk order
C10_ManifestHasEveryChunk ==
    pc \in {"concat", "done"} => manifest = NonBlankFrom(0)

(***************************************************************************)
(* Further claims about split_text_smart, checked under SplitSpec          *)
(***************************************************************************)
Terminators == {".", "!", "?"}

\* the total length of the first n elements of a sequence of texts
RECURSIVE LenUpTo(_, _)
LenUpTo(parts, n) == IF n = 0 THEN 0 ELSE LenUpTo(parts, n - 1) + Len(parts[n])

\* C11: a text no longer than max_chars comes back as one chunk, the text
C11_ShortTextIsOneChunk ==
    (pc = "split_done" /\ Len(text) <= max_chars) => chunks = <<text>>

\* C11 witness: a short text with a terminator and the marker character
C11_Witness ==
    /\ pc = "split_done" /\ Len(text) <= max_chars
    /\ \E i \in 1..Len(text) : text[i] \in Terminators
    /\ \E i \in 1..Len(text) : text[i] = "|"

\* the last position of each sentence of the text: every terminator, and the
\* end of the text
SentenceEnds == {i \in 1..Len(text) : text[i] \in Terminators \/ i = Len(text)}
\* the first position of the sentence that ends at e
SentenceStart(e) ==
    IF \E j \in SentenceEnds : j < e
    THEN 1 + CHOOSE j \in SentenceEnds : j < e /\ \A k \in SentenceEnds : k < e => k <= j
    ELSE 1

\* C12: every sentence of the text that is no longer than max_chars lies whole
\* in one returned chunk, at its place in the text
C12_ShortSentenceKeptWhole ==
    pc = "split_done" =>
        \A e \in SentenceEnds :
            LET s == SentenceStart(e)
            IN  (e - s + 1 <= max_chars) =>
                  \E k \in 1..Len(chunks) :
                     LET c0 == LenUpTo(chunks, k - 1)
                     IN  /\ c0 < s
                         /\ e <= c0 + Len(chunks[k])
                         /\ SubSeq(chunks[k], s - c0, e - c0) = SubSeq(text, s, e)

\* the sentences split_text_smart works on that are not empty
NonEmptySentences == SelectSeq(Sentences(text), LAMBDA x : x # <<>>)
\* sentence i starts after offset SentFrom(i) and ends at offset SentTo(i)
SentFrom(i) == LenUpTo(NonEmptySentences, i - 1)
SentTo(i) == LenUpTo(NonEmptySentences, i)
IsLong(i) == Len(NonEmptySentences[i]) > max_chars
SentIdx == 1..Len(NonEmptySentences)

\* the boundary after chunk k lies inside a sentence longer than max_chars
InsideHardCut(k) ==
    \E i \in SentIdx :
        IsLong(i) /\ SentFrom(i) < LenUpTo(chunks, k) /\ LenUpTo(chunks, k) < SentTo(i)
\* the boundary after chunk k is where the next sentence no longer fits chunk k
AtOverflow(k) ==
    \E i \in SentIdx :
        SentFrom(i) = LenUpTo(chunks, k) /\ Len(chunks[k]) + Len(NonEmptySentences[i]) > max_chars
\* the boundary after chunk k is the end of a sentence longer than max_chars
AfterHardCut(k) ==
    \E i \in SentIdx : IsLong(i) /\ SentTo(i) = LenUpTo(chunks, k)

\* C18 as stated: every boundary between two chunks is inside a hard cut or
\* where the next sentence would overflow the earlier chunk (so the last piece
\* of a hard-cut sentence takes in the sentences that still fit)
C18_GreedyEverywhere ==
    (pc = "split_done" /\ Len(text) > max_chars) =>
        \A k \in 1..(Len(chunks) - 1) : InsideHardCut(k) \/ AtOverflow(k)

\* C18 as amended: every boundary is inside a hard cut, where the next
\* sentence would overflow the earlier chunk, or right after the last piece of
\* a hard-cut sentence; that last piece is never merged with what follows
C18_GreedyButForHardCuts ==
    (pc = "split_done" /\ Len(text) > max_chars) =>
        /\ \A k \in 1..(Len(chunks) - 1) :
              InsideHardCut(k) \/ AtOverflow(k) \/ AfterHardCut(k)
        /\ \A i \in SentIdx :
              (IsLong(i) /\ i < Len(NonEmptySentences)) =>
                  \E k \in 1..(Len(chunks) - 1) : LenUpTo(chunks, k) = SentTo(i)

\* C18 witness: the short last piece of a hard-cut sentence is followed by a
\* sentence that would have fitted it
C18_Witness ==
    /\ pc = "split_done" /\ Len(text) > max_chars
    /\ \E k \in 1..(Len(chunks) - 1) :
          AfterHardCut(k) /\ ~AtOverflow(k) /\ ~InsideHardCut(k)

(***************************************************************************)
(* Claim about get_ffmpeg_path, checked under LocateSpec                   *)
(***************************************************************************)
\* the first source of the host, in the order resolver, PATH, common paths,
\* that yields an existing executable
FirstUsable ==
    IF host.resolver = "existing" THEN "imageio ffmpeg"
    ELSE IF host.which THEN "which ffmpeg"
    ELSE IF host.common[1] THEN CommonPaths[1]
    ELSE IF host.common[2] THEN CommonPaths[2]
    ELSE IF host.common[3] THEN CommonPaths[3]
    ELSE NoPath

\* C13: get_ffmpeg_path returns the first usable executable in the order
\* resolver, PATH, common paths, and raises FileNotFoundError exactly when no
\* source yields one, whatever the resolver does
C13_FirstUsableOrNotFound ==
    pc # "locate_call" =>
        /\ FirstUsable # NoPath => (pc = "locate_returned" /\ ffmpeg_exe = FirstUsable)
        /\ FirstUsable = NoPath => (pc = "locate_raised" /\ error.type = "FileNotFoundError")

(***************************************************************************)
(* Further claims about synthesize_text_to_mp3, checked under Spec         *)
(***************************************************************************)
\* C14: when the concatenation tool exits non-zero, the call raises a
\* RuntimeError whose message holds the tool's standard-error text, returns
\* nothing, and the tool was run exactly once
C14_ConcatErrorCarriesStderr ==
    concat_exit.code = "nonzero" =>
        /\ pc = "failed"
        /\ error.type = "RuntimeError"
        /\ \E i \in 1..Len(error.detail) : error.detail[i] = concat_exit.stderr
        /\ result = NoResult
        /\ concat_runs = 1

\* C14 witness: the tool exited non-zero
C14_Witness == concat_exit.code = "nonzero" /\ concat_exit.stderr \in ToolStderr

\* C15: no result path is returned when the final output file is missing or
\* empty, also when the tool exited 0
C15_NoResultWithoutOutput ==
    (pc = "done" \/ result # NoResult) => final_file = "good"

\* the request failed inside the loop, at the synthesis of chunk idx
AbortedAtChunk == pc = "failed" /\ tmp_dir # "no dir" /\ idx < Len(chunks)

\* C16: a request is aborted at a chunk only after gTTS was tried on that
\* chunk, however the primary failed; and gTTS is first called only after the
\* primary made 3 failed runs on one chunk
C16_BothEnginesExhausted ==
    /\ AbortedAtChunk => idx \in fallback_on
    /\ fallback_on # {} =>
          /\ primary_raised_at # NoIdx
          /\ \A i \in fallback_on : i >= primary_raised_at
          /\ cmd_runs = 3

(***************************************************************************)
(* Claim about _synthesize_chunk, checked under ChunkSpec                  *)
(***************************************************************************)
\* C19: a call of _synthesize_chunk ends in one of three ways: at once for a
\* blank chunk, after a successful run, or with RuntimeError after the third
\* failed run
C19_ThreeWaysOut ==
    pc \notin {"chunk_call", "primary"} =>
        \/ pc = "chunk_returned" /\ IsBlank(chunk) /\ cmd_runs = 0
        \/ pc = "loop" /\ cmd_runs \in 1..3 /\ error = NoError
        \/ pc = "fallback" /\ primary_raised_at = idx /\ cmd_runs = 3

(***************************************************************************)
(* Claim about calls side by side, checked under MultiSpec                 *)
(***************************************************************************)
\* C17: requests are independent: a request is on fallback exactly when its
\* own primary raised, it calls gTTS only from that chunk on, and whatever it
\* writes lies in its own temporary directory, so that no path is written by
\* two requests
C17_RequestsIndependent ==
    \A r \in Requests :
        /\ reqs[r].use_fallback <=> reqs[r].raised_at # NoIdx
        /\ reqs[r].raised_at # NoIdx => reqs[r].raised_at \in reqs[r].primary_on
        /\ \A i \in reqs[r].fallback_on :
              reqs[r].raised_at # NoIdx /\ i >= reqs[r].raised_at
        /\ reqs[r].pc = "fallback" => reqs[r].raised_at # NoIdx
        /\ \A p \in reqs[r].written : p.dir = reqs[r].tmp_dir
        /\ \A s \in Requests \ {r} : reqs[r].written \cap reqs[s].written = {}

\* both requests are through, one of them on fallback and the other on the
\* primary all the way, and both wrote files of the same names
C17_Witness ==
    /\ reqs["r1"].pc = "done" /\ reqs["r2"].pc = "done"
    /\ reqs["r1"].use_fallback /\ reqs["r1"].fallback_on # {}
    /\ ~reqs["r2"].use_fallback /\ reqs["r2"].primary_on # {}
    /\ \E p \in reqs["r1"].written, q \in reqs["r2"].written :
          p.name = q.name /\ p.n = q.n /\ p.dir # q.dir

====
